---------------------------- MODULE Spec2Model ----------------------------
(***************************************************************************)
(* Synaptic View: the entity store (core/state.py), the simulation loop    *)
(* and snapshot publication (game/renderer.py) and the Tk inspector        *)
(* (gui/variable_monitor.py).                                              *)
(*                                                                         *)
(* A Python dict is an ordered mapping: it is modelled as a sequence of    *)
(* <<key, value>> pairs in insertion order.  Coordinates are floats that   *)
(* move by 1.5 per frame: they are stored in half-pixels (3 = 1.5 px).     *)
(* The frame rate is stored in tenths (600 = 60.0).                        *)
(*                                                                         *)
(* Two threads run: the simulation (PygameRenderer.run) and the Tk main    *)
(* loop of the inspector.  update() is one step, except that its second    *)
(* read of selected_entity_id, which the Tk thread writes, is a step of    *)
(* its own.  A callback of the Tk main loop is one step.                   *)
(***************************************************************************)
EXTENDS Integers, Sequences, FiniteSets, TLC

(***************************************************************************)
(* Bounds of the model.                                                    *)
(***************************************************************************)
MaxEntities == 2      \* identities add_entity may issue in the store runs
MaxTicks == 76        \* frames the simulation loop runs
ScenarioTicks == 120  \* frames of the two-entity scenario
LiveTicks == 46       \* frames of the runs checked for progress
LifeTicks == 76       \* frames of the runs with start-up and shutdown
FaultTicks == 31      \* frames of the runs with an entity that cannot move
PromptTicks == 121    \* frames of the runs with a prompt inspector

None == 0             \* Python's None for Optional[int]; identities start at 1
NotANumber == -1      \* a coordinate that is no number (None, or a str)

(***************************************************************************)
(* Constants of the program.  core/config.py is not among the sources: the *)
(* screen is given the smallest grid that holds main's two entities        *)
(* (columns 3 and 10, rows 5 and 8).                                       *)
(***************************************************************************)
CELL_SIZE == 1            \* config.CELL_SIZE, in pixels
GAME_SCREEN_WIDTH == 12   \* config.GAME_SCREEN_WIDTH, in pixels
MoveSpeed == 3            \* move_speed = 1.5 pixels per frame, in half-pixels
ListCadence == 60         \* frame_count % 60: the identity list is pushed
SnapshotCadence == 15     \* frame_count % 15: a snapshot is published
FPS == 60                 \* config.FPS, the frame rate clock.tick keeps

(***************************************************************************)
(* Python dict operations.                                                 *)
(***************************************************************************)
EmptyDict == <<>>

DictKeys(d) == {d[i][1] : i \in 1..Len(d)}

DictHas(d, k) == \E i \in 1..Len(d) : d[i][1] = k

DictGet(d, k) == d[CHOOSE i \in 1..Len(d) : d[i][1] = k][2]

\* d[k] = v: an existing key keeps its position, a new key goes last
DictSetItem(d, k, v) ==
    IF DictHas(d, k)
    THEN LET i == CHOOSE j \in 1..Len(d) : d[j][1] = k
         IN SubSeq(d, 1, i - 1) \o <<<<k, v>>>> \o SubSeq(d, i + 1, Len(d))
    ELSE Append(d, <<k, v>>)

\* d.update(u), and {**d, **u}: the items of u are stored in u's order
RECURSIVE DictUpdate(_, _)
DictUpdate(d, u) ==
    IF u = <<>> THEN d
    ELSE DictUpdate(DictSetItem(d, u[1][1], u[1][2]), Tail(u))

\* sorted(s) for a set of integers, as a sequence
RECURSIVE Sorted(_)
Sorted(S) ==
    IF S = {} THEN <<>>
    ELSE LET m == CHOOSE a \in S : \A b \in S : a <= b
         IN <<m>> \o Sorted(S \ {m})

(***************************************************************************)
(* Inputs of the store operations.                                         *)
(***************************************************************************)
InitialDatas ==
    { EmptyDict,
      << <<"x", 9>>, <<"name", "First Agent">>, <<"status", "Spawned">> >>,
      << <<"id", 9>>, <<"brain_active", TRUE>> >> }

UpdateDatas ==
    { << <<"x", 3>> >>,
      << <<"status", "Moved">>, <<"tag", "t">> >> }

IdInputs == 1..(MaxEntities + 1)

(***************************************************************************)
(* State.                                                                  *)
(***************************************************************************)
VARIABLES
    entities,            \* GameState.entities: identity -> dict
    next_entity_id,      \* GameState._next_entity_id
    frame_count,         \* PygameRenderer.frame_count
    selected_entity_id,  \* PygameRenderer.selected_entity_id
    global_metrics,      \* PygameRenderer.global_metrics
    is_running,          \* PygameRenderer.is_running
    sim_pc,              \* where the simulation thread is: "unstarted" (main
                         \* has not built the renderer), "idle" (between frames
                         \* of run), "publish" (in update(), between its two
                         \* reads of selected_entity_id), "raised" (an
                         \* exception left run), "blocked" (waiting on the Tk
                         \* thread for ever), "exited" (run returned),
                         \* "refused" (main returned without a renderer)
    monitor_is_running,  \* VariableMonitor.is_running
    tk_pc,               \* where the monitor thread is: "unstarted",
                         \* "failed" (tk.Tk() raised), "mainloop" (dispatching
                         \* events), "returned" (mainloop() returned,
                         \* is_running not yet reset), "stopped"
    entity_var,          \* VariableMonitor.entity_var (the dropdown's value)
    entity_ids,          \* VariableMonitor.entity_ids (the dropdown's options)
    variable_labels,     \* VariableMonitor.variable_labels: key -> label text
    after_queue,         \* callbacks scheduled with root.after(0, ...)
    orphans,             \* dicts removed from the store that a scheduled
                         \* callback still refers to: identity -> dict
    issued,              \* history: the identities add_entity returned, in order
    call,                \* history: the last store call, its arguments and result
    pub,                 \* history: the last snapshot handed to update_data
    shown,               \* history: the last snapshot _populate_variables drew
    lists,               \* history: the identity lists handed to the monitor
    ticks                \* history: the calls of update()

store_vars == <<entities, next_entity_id, issued, call>>
sim_vars ==
    <<frame_count, selected_entity_id, global_metrics, is_running, sim_pc>>
monitor_vars ==
    <<monitor_is_running, tk_pc, entity_var, entity_ids, variable_labels>>
hist_vars == <<pub, shown, lists, ticks>>

vars == <<entities, next_entity_id, frame_count, selected_entity_id,
          global_metrics, is_running, sim_pc, monitor_is_running, tk_pc,
          entity_var, entity_ids,
          variable_labels, after_queue, orphans, issued, call, pub, shown,
          lists, ticks>>

NoCall ==
    [op |-> "none", id |-> None, arg |-> EmptyDict, ret |-> None,
     out |-> EmptyDict, turn |-> 0]

\* the record of one store call: ret is a returned identity, out a returned
\* dict; turn alternates so that every call is a change
Returned(op, id, arg, ret, out) ==
    [op |-> op, id |-> id, arg |-> arg, ret |-> ret, out |-> out,
     turn |-> 1 - call.turn]

Called(op, id, arg, ret) == Returned(op, id, arg, ret, EmptyDict)

(***************************************************************************)
(* core/state.py                                                           *)
(***************************************************************************)
EntityTemplate(entity_id) ==
    << <<"id", entity_id>>, <<"x", 0>>, <<"y", 0>>,
       <<"status", "Existing">>, <<"brain_active", FALSE>> >>

\* a merge in the wrong order: the template overrides the caller's data
NewEntityDataTemplateWins(entity_id, initial_data) ==
    DictUpdate(initial_data, EntityTemplate(entity_id))

\* the dict add_entity stores: the template overridden by initial_data
NewEntityData(entity_id, initial_data) ==
    DictUpdate(EntityTemplate(entity_id), initial_data)

\* an identity taken from the size of the store instead of the counter
AllocatedIdByCount == Cardinality(DOMAIN entities) + 1

\* the identity add_entity assigns
AllocatedId == next_entity_id

add_entity(initial_data) ==
    LET entity_id == AllocatedId
    IN /\ entity_id <= MaxEntities
       /\ entities' = [k \in DOMAIN entities \cup {entity_id} |->
                          IF k = entity_id
                          THEN NewEntityData(entity_id, initial_data)
                          ELSE entities[k]]
       /\ next_entity_id' = next_entity_id + 1
       /\ issued' = Append(issued, entity_id)
       /\ call' = Called("add_entity", entity_id, initial_data, entity_id)
       /\ UNCHANGED <<sim_vars, monitor_vars, hist_vars, after_queue, orphans>>

\* an update that replaces the entity's dict by the updates
UpdatedEntitiesReplace(entity_id, updates) ==
    IF entity_id \in DOMAIN entities
    THEN [entities EXCEPT ![entity_id] = updates]
    ELSE entities

\* an update without the membership test: an absent identity is inserted
UpdatedEntitiesUpsert(entity_id, updates) ==
    [k \in DOMAIN entities \cup {entity_id} |->
        IF k = entity_id
        THEN DictUpdate(IF k \in DOMAIN entities THEN entities[k] ELSE EmptyDict,
                        updates)
        ELSE entities[k]]

\* the store after update_entity(entity_id, updates)
UpdatedEntities(entity_id, updates) ==
    IF entity_id \in DOMAIN entities
    THEN [entities EXCEPT ![entity_id] = DictUpdate(@, updates)]
    ELSE entities

update_entity(entity_id, updates) ==
    /\ entities' = UpdatedEntities(entity_id, updates)
    /\ call' = Called("update_entity", entity_id, updates, None)
    /\ UNCHANGED <<next_entity_id, issued>>
    /\ UNCHANGED <<sim_vars, monitor_vars, hist_vars, after_queue, orphans>>

get_entity_ids == Sorted(DOMAIN entities)

\* a lookup that answers an absent identity with a default entity
get_entity_dataDefaultEntity(entity_id) ==
    IF entity_id \in DOMAIN entities
    THEN entities[entity_id]
    ELSE EntityTemplate(entity_id)

\* entities.get(entity_id, {}): the stored dict, or an empty dict
get_entity_data(entity_id) ==
    IF entity_id \in DOMAIN entities THEN entities[entity_id] ELSE EmptyDict

\* a call of get_entity_data: dict.get reads the store and writes nothing
GetEntityData(entity_id) ==
    /\ call' = Returned("get_entity_data", entity_id, EmptyDict, None,
                        get_entity_data(entity_id))
    /\ UNCHANGED <<entities, next_entity_id, issued>>
    /\ UNCHANGED <<sim_vars, monitor_vars, hist_vars, after_queue, orphans>>

\* the identities whose dict a scheduled callback refers to
Referenced(queue) ==
    {queue[i].data.id : i \in {j \in 1..Len(queue) :
                                  /\ queue[j].fn = "_populate_variables"
                                  /\ queue[j].data.obj = "entity"}}

\* removal of an entity from the store (del entities[entity_id]); the dict
\* lives on while a scheduled callback refers to it
remove_entity(entity_id) ==
    /\ entity_id \in DOMAIN entities
    /\ entities' = [k \in DOMAIN entities \ {entity_id} |-> entities[k]]
    /\ orphans' = IF entity_id \in Referenced(after_queue)
                  THEN [k \in DOMAIN orphans \cup {entity_id} |->
                           IF k = entity_id THEN entities[k] ELSE orphans[k]]
                  ELSE orphans
    /\ call' = Called("remove_entity", entity_id, EmptyDict, None)
    /\ UNCHANGED <<next_entity_id, issued>>
    /\ UNCHANGED <<sim_vars, monitor_vars, hist_vars, after_queue>>

(***************************************************************************)
(* str(value) for the values the dicts hold, by key: coordinates are       *)
(* floats in half-pixels (the template's 0 is the int 0), the frame rate   *)
(* is a float in tenths, flags are bools, the rest are ints and strings.   *)
(***************************************************************************)
PyStr(key, value) ==
    CASE key \in {"x", "y"} ->
            IF value = NotANumber THEN "None"
            ELSE IF value = 0 THEN "0"
            ELSE ToString(value \div 2) \o (IF value % 2 = 0 THEN ".0" ELSE ".5")
      [] key = "Current FPS" ->
            ToString(value \div 10) \o "." \o ToString(value % 10)
      [] key \in {"id", "grid_col", "grid_row", "Frame Count", "Total Entities"} ->
            ToString(value)
      [] key \in {"brain_active", "manual_spawn"} ->
            IF value THEN "True" ELSE "False"
      [] OTHER -> value

\* str.isdigit() and int() on the dropdown's strings
IsDigit(s) == \E n \in 0..next_entity_id : ToString(n) = s
PyInt(s) == CHOOSE n \in 0..next_entity_id : ToString(n) = s

Range(q) == {q[i] : i \in 1..Len(q)}

(***************************************************************************)
(* References to dicts.  update() hands the monitor the dict object itself *)
(* (global_metrics, or an entity's dict), or the fresh {} that             *)
(* get_entity_data returns for an absent identity.                         *)
(***************************************************************************)
MetricsRef == [obj |-> "global_metrics", id |-> None]
EntityRef(entity_id) == [obj |-> "entity", id |-> entity_id]
NewDictRef == [obj |-> "new", id |-> None]

\* the contents of the dict a reference points to, now
Deref(ref) ==
    CASE ref.obj = "global_metrics" -> global_metrics
      [] ref.obj = "entity" ->
            IF ref.id \in DOMAIN entities THEN entities[ref.id] ELSE orphans[ref.id]
      [] OTHER -> EmptyDict

\* the callbacks root.after schedules; n and at_publish are history: the
\* number of the handoff and the dict's contents when it was handed over
\* and behind the number of snapshots then still waiting to be drawn
PopulateCallback(ref, n, contents, behind) ==
    [fn |-> "_populate_variables", data |-> ref, ids |-> <<>>,
     n |-> n, at_publish |-> contents, behind |-> behind]

ListCallback(new_entity_ids) ==
    [fn |-> "_apply_entity_list_update", data |-> NewDictRef,
     ids |-> new_entity_ids, n |-> 0, at_publish |-> EmptyDict, behind |-> 0]

\* the snapshots scheduled and not yet drawn
Pending(queue) ==
    {i \in 1..Len(queue) : queue[i].fn = "_populate_variables"}

StillReferenced(queue) ==
    [k \in DOMAIN orphans \cap Referenced(queue) |-> orphans[k]]

(***************************************************************************)
(* gui/variable_monitor.py, called from the simulation thread              *)
(***************************************************************************)
\* update_entity_list: the queue after the call
update_entity_list(queue, new_entity_ids) ==
    IF monitor_is_running
    THEN Append(queue, ListCallback(new_entity_ids))
    ELSE queue

\* a handoff that keeps the waiting snapshot and drops the new one
update_dataKeepOldest(queue, ref, n, contents) ==
    IF monitor_is_running /\ Pending(queue) = {}
    THEN Append(queue, PopulateCallback(ref, n, contents, 0))
    ELSE queue

\* update_data: the queue after the call
update_data(queue, ref, n, contents) ==
    IF monitor_is_running
    THEN Append(queue, PopulateCallback(ref, n, contents,
                                        Cardinality(Pending(queue))))
    ELSE queue

(***************************************************************************)
(* game/renderer.py                                                        *)
(***************************************************************************)
InitialMetrics ==
    << <<"Frame Count", 0>>, <<"Current FPS", 0>>,
       <<"Total Entities", 0>>, <<"System Status", "Running">> >>

RendererInit ==
    /\ frame_count = 0
    /\ selected_entity_id = None
    /\ global_metrics = InitialMetrics
    /\ is_running = TRUE
    /\ sim_pc = "idle"

\* Grid.screen_to_grid, on half-pixel coordinates
screen_to_grid(x, y) == <<x \div (2 * CELL_SIZE), y \div (2 * CELL_SIZE)>>

\* the updates update() computes for one entity
MovementUpdates(data) ==
    LET x == DictGet(data, "x")
        y == DictGet(data, "y")
        new_x == IF x < 2 * (GAME_SCREEN_WIDTH - CELL_SIZE)
                 THEN x + MoveSpeed
                 ELSE 0 + MoveSpeed
        new_y == y
    IN << <<"x", new_x>>, <<"y", new_y>>,
          <<"grid_col", screen_to_grid(new_x, new_y)[1]>>,
          <<"grid_row", screen_to_grid(new_x, new_y)[2]>> >>

\* data['x'] < ... raises TypeError when x is no number, and nothing in
\* update() or run() catches it
MovementRaises(data) == DictGet(data, "x") = NotANumber

\* the first entity, in the order of entities.items(), whose movement
\* raises; None when the loop runs to its end
FirstFault ==
    LET faulty == {k \in DOMAIN entities : MovementRaises(entities[k])}
    IN IF faulty = {} THEN None
       ELSE CHOOSE k \in faulty : \A j \in faulty : k <= j

\* the store after the movement loop: update_entity for every entity, up to
\* the first whose movement raises
MovedEntities ==
    [k \in DOMAIN entities |->
        IF FirstFault = None \/ k < FirstFault
        THEN UpdatedEntities(k, MovementUpdates(entities[k]))[k]
        ELSE entities[k]]

\* the metrics after the three update_global_metrics calls of a frame
FrameMetrics(frame, fps, total) ==
    DictSetItem(DictSetItem(DictSetItem(global_metrics,
        "Frame Count", frame), "Current FPS", fps), "Total Entities", total)

\* the frame update() counts
NextFrame == frame_count + 1

\* round(self.clock.get_fps(), 1), in tenths: pygame averages the last ten
\* frames and reports 0.0 until it has them; the loop runs at config.FPS
ClockFps(frame) == IF frame <= 10 THEN 0 ELSE 10 * FPS

ListDue(frame) == frame % ListCadence = 0

\* a snapshot published at the identity list's cadence
SnapshotDueAtListCadence(frame) == frame % ListCadence = 0

SnapshotDue(frame) == frame % SnapshotCadence = 0

\* root.after called from the simulation thread passes the monitor's test
\* (is_running and root) but the Tk main loop no longer dispatches: the
\* call is marshalled to the Tk thread, and it raises RuntimeError ("main
\* thread is not in main loop") or waits for ever for that thread
AfterFails == monitor_is_running /\ tk_pc # "mainloop"

HandoffFailures == {"raised", "blocked"}

\* update(): movement, metrics, the identity list, and the snapshot when
\* the selection reads None; when it reads an identity the second read of
\* selected_entity_id is the step publish_selected.  An exception of the
\* movement loop, or of a handoff, leaves update() where it is raised.
update ==
    LET frame == NextFrame
        metrics == FrameMetrics(frame, ClockFps(frame),
                                Cardinality(DOMAIN entities))
        queue1 == IF ListDue(frame)
                  THEN update_entity_list(after_queue, get_entity_ids)
                  ELSE after_queue
    IN /\ sim_pc = "idle"
       /\ frame_count' = frame
       /\ ticks' = ticks + 1
       /\ entities' = MovedEntities
       /\ IF FirstFault # None
          THEN /\ sim_pc' = "raised"
               /\ UNCHANGED <<global_metrics, lists, after_queue, pub>>
          ELSE /\ global_metrics' = metrics
               /\ lists' = IF ListDue(frame) THEN lists + 1 ELSE lists
               /\ IF AfterFails /\ (ListDue(frame) \/
                        (SnapshotDue(frame) /\ selected_entity_id = None))
                  THEN /\ sim_pc' \in HandoffFailures
                       /\ UNCHANGED <<after_queue, pub>>
                  ELSE IF SnapshotDue(frame) /\ selected_entity_id = None
                  THEN /\ after_queue' =
                            update_data(queue1, MetricsRef, pub.n + 1, metrics)
                       /\ pub' = [n |-> pub.n + 1, tick |-> frame,
                                  data |-> MetricsRef, value |-> metrics]
                       /\ sim_pc' = "idle"
                  ELSE /\ after_queue' = queue1
                       /\ pub' = pub
                       /\ sim_pc' = IF SnapshotDue(frame) THEN "publish"
                                                          ELSE "idle"
       /\ UNCHANGED <<next_entity_id, issued, call, selected_entity_id,
                      monitor_vars, orphans, shown>>

\* the reference get_entity_data(entity_id) returns
EntityDataRef(entity_id) ==
    IF entity_id \in DOMAIN entities THEN EntityRef(entity_id) ELSE NewDictRef

\* the rest of update() when the selection read an identity:
\* update_data(get_entity_data(selected_entity_id))
publish_selected ==
    LET ref == EntityDataRef(selected_entity_id)
        contents == get_entity_data(selected_entity_id)
    IN /\ sim_pc = "publish"
       /\ IF AfterFails
          THEN /\ sim_pc' \in HandoffFailures
               /\ UNCHANGED <<after_queue, pub>>
          ELSE /\ after_queue' =
                    update_data(after_queue, ref, pub.n + 1, contents)
               /\ pub' = [n |-> pub.n + 1, tick |-> frame_count, data |-> ref,
                          value |-> contents]
               /\ sim_pc' = "idle"
       /\ UNCHANGED <<store_vars, frame_count, selected_entity_id, global_metrics,
                      is_running, monitor_vars, orphans, shown, lists, ticks>>

(***************************************************************************)
(* gui/variable_monitor.py, on the Tk thread                               *)
(***************************************************************************)
MonitorInit ==
    /\ monitor_is_running = TRUE
    /\ tk_pc = "mainloop"
    /\ entity_var = "Game Metrics"
    /\ entity_ids = <<"Game Metrics">>
    /\ variable_labels = <<>>
    /\ after_queue = <<>>
    /\ orphans = <<>>

\* _on_entity_select: the identity passed to select_callback
\* (PygameRenderer.set_selected_entity)
on_entity_select(selected) ==
    IF IsDigit(selected) THEN PyInt(selected) ELSE None

\* the labels _populate_variables builds from a dict
Labels(data) ==
    [i \in 1..Len(data) |-> <<data[i][1], PyStr(data[i][1], data[i][2])>>]

\* the callback at the head of the queue
NextCallback == after_queue[1]

populate_variables ==
    LET cb == NextCallback
    IN /\ variable_labels' = Labels(Deref(cb.data))
       /\ shown' = [n |-> cb.n, at_publish |-> cb.at_publish,
                    behind |-> cb.behind]
       /\ UNCHANGED <<entity_var, entity_ids, selected_entity_id>>

\* a list update that leaves the dropdown's value alone
apply_entity_list_updateKeepValue ==
    LET new_entity_ids == NextCallback.ids
        sorted == Sorted(Range(new_entity_ids))
        new_ids_str == <<"Game Metrics">> \o
                       [i \in 1..Len(sorted) |-> ToString(sorted[i])]
    IN /\ entity_ids' = new_ids_str
       /\ UNCHANGED <<entity_var, selected_entity_id, variable_labels, shown>>

\* a list update that resets the dropdown whenever the options change
apply_entity_list_updateAlwaysReset ==
    LET new_entity_ids == NextCallback.ids
        sorted == Sorted(Range(new_entity_ids))
        new_ids_str == <<"Game Metrics">> \o
                       [i \in 1..Len(sorted) |-> ToString(sorted[i])]
    IN /\ IF new_ids_str = entity_ids
          THEN UNCHANGED <<entity_ids, entity_var, selected_entity_id>>
          ELSE /\ entity_ids' = new_ids_str
               /\ entity_var' = new_ids_str[1]
               /\ selected_entity_id' = on_entity_select(new_ids_str[1])
       /\ UNCHANGED <<variable_labels, shown>>

apply_entity_list_update ==
    LET new_entity_ids == NextCallback.ids
        sorted == Sorted(Range(new_entity_ids))
        new_ids_str == <<"Game Metrics">> \o
                       [i \in 1..Len(sorted) |-> ToString(sorted[i])]
    IN /\ IF new_ids_str = entity_ids
          THEN UNCHANGED <<entity_ids, entity_var, selected_entity_id>>
          ELSE /\ entity_ids' = new_ids_str
               /\ IF entity_var \notin Range(new_ids_str)
                  THEN /\ entity_var' = new_ids_str[1]
                       /\ selected_entity_id' = on_entity_select(new_ids_str[1])
                  ELSE UNCHANGED <<entity_var, selected_entity_id>>
       /\ UNCHANGED <<variable_labels, shown>>

\* a main loop whose drawing empties the aggregate metrics it was handed
RunCallbackDraining ==
    /\ tk_pc = "mainloop"
    /\ after_queue # <<>>
    /\ after_queue' = Tail(after_queue)
    /\ orphans' = StillReferenced(Tail(after_queue))
    /\ IF NextCallback.fn = "_populate_variables"
       THEN /\ populate_variables
            /\ global_metrics' = IF NextCallback.data = MetricsRef
                                 THEN EmptyDict ELSE global_metrics
       ELSE /\ apply_entity_list_update
            /\ UNCHANGED global_metrics
    /\ UNCHANGED <<store_vars, frame_count, is_running, sim_pc,
                   monitor_is_running, tk_pc, pub, lists, ticks>>

\* the Tk main loop runs the oldest scheduled callback
RunCallback ==
    /\ tk_pc = "mainloop"
    /\ after_queue # <<>>
    /\ after_queue' = Tail(after_queue)
    /\ orphans' = StillReferenced(Tail(after_queue))
    /\ IF NextCallback.fn = "_populate_variables"
       THEN populate_variables
       ELSE apply_entity_list_update
    /\ UNCHANGED <<store_vars, frame_count, global_metrics, is_running, sim_pc,
                   monitor_is_running, tk_pc, pub, lists, ticks>>

\* the user picks an option of the dropdown: the variable is written and its
\* trace calls _on_entity_select
UserSelect ==
    /\ tk_pc = "mainloop"
    /\ \E option \in Range(entity_ids) :
          /\ entity_var' = option
          /\ selected_entity_id' = on_entity_select(option)
    /\ UNCHANGED <<store_vars, frame_count, global_metrics, is_running, sim_pc,
                   monitor_is_running, tk_pc, entity_ids, variable_labels,
                   after_queue, orphans, hist_vars>>

HistoryInit ==
    /\ pub = [n |-> 0, tick |-> 0, data |-> NewDictRef, value |-> EmptyDict]
    /\ shown = [n |-> 0, at_publish |-> EmptyDict, behind |-> 0]
    /\ lists = 0
    /\ ticks = 0

(***************************************************************************)
(* main.py: the two entities, the monitor and the renderer.                *)
(***************************************************************************)
\* get_center_coords, in half-pixels
get_center_coords(col, row) ==
    <<2 * col * CELL_SIZE + CELL_SIZE, 2 * row * CELL_SIZE + CELL_SIZE>>

MainData(col, row, name) ==
    << <<"x", get_center_coords(col, row)[1]>>,
       <<"y", get_center_coords(col, row)[2]>>,
       <<"name", name>>, <<"manual_spawn", TRUE>>, <<"status", "Spawned">> >>

\* the store after main's two add_entity calls
MainStore ==
    /\ entities = <<NewEntityData(1, MainData(3, 5, "First Agent")),
                    NewEntityData(2, MainData(10, 8, "Second Agent"))>>
    /\ next_entity_id = 3
    /\ issued = <<1, 2>>
    /\ call = NoCall

Init ==
    /\ MainStore
    /\ RendererInit
    /\ MonitorInit
    /\ HistoryInit

\* handle_events: a QUIT event clears is_running
handle_events(quit) == is_running' = (is_running /\ ~quit)

\* one frame of run(), no QUIT event
Tick == frame_count < MaxTicks /\ is_running /\ handle_events(FALSE) /\ update

Publish == publish_selected

Remove == \E id \in DOMAIN entities : remove_entity(id)

Next == Tick \/ Publish \/ RunCallback \/ UserSelect \/ Remove

Spec == Init /\ [][Next]_vars

\* the program as the sources have it: no entity is ever removed
KeepNext == Tick \/ Publish \/ RunCallback \/ UserSelect

KeepSpec == Init /\ [][KeepNext]_vars

\* the scenario: main's two entities, none created or removed, 120 frames,
\* the inspector running and its dropdown left alone
ScenarioTick ==
    frame_count < ScenarioTicks /\ is_running /\ handle_events(FALSE) /\ update

ScenarioNext == ScenarioTick \/ RunCallback

ScenarioSpec == Init /\ [][ScenarioNext]_vars

\* the simulation beside an inspector that keeps running: the Tk main loop
\* runs every scheduled callback
LiveTick ==
    frame_count < LiveTicks /\ is_running /\ handle_events(FALSE) /\ update

LiveNext == LiveTick \/ RunCallback

LiveSpec == Init /\ [][LiveNext]_vars /\ WF_vars(RunCallback)

(***************************************************************************)
(* Start-up and shutdown: main() from the creation of the monitor on, the  *)
(* monitor thread from tk.Tk() to the end of _setup_gui, and run() to its  *)
(* return.                                                                 *)
(***************************************************************************)
\* start_monitor_thread: the thread runs _setup_gui, and the caller waits
\* until root is set or the thread has died (tk.Tk() raised)
start_monitor_thread(started) ==
    /\ tk_pc = "unstarted"
    /\ tk_pc' = IF started THEN "mainloop" ELSE "failed"
    /\ monitor_is_running' = started
    /\ UNCHANGED <<store_vars, sim_vars, entity_var, entity_ids,
                   variable_labels, after_queue, orphans, hist_vars>>

StartMonitor == start_monitor_thread(TRUE)

StartFails == start_monitor_thread(FALSE)

\* main after time.sleep(1): it returns when the monitor is not running,
\* and builds the renderer and calls run() when it is
MainCheck ==
    /\ sim_pc = "unstarted"
    /\ tk_pc # "unstarted"
    /\ sim_pc' = IF monitor_is_running THEN "idle" ELSE "refused"
    /\ UNCHANGED <<store_vars, frame_count, selected_entity_id, global_metrics,
                   is_running, monitor_vars, after_queue, orphans, hist_vars>>

\* stop(): root.quit() ends a running main loop
stop == tk_pc' = IF tk_pc = "mainloop" THEN "returned" ELSE tk_pc

\* the user closes the monitor's window: WM_DELETE_WINDOW calls stop
CloseWindow ==
    /\ tk_pc = "mainloop"
    /\ stop
    /\ UNCHANGED <<store_vars, sim_vars, monitor_is_running, entity_var,
                   entity_ids, variable_labels, after_queue, orphans, hist_vars>>

\* _setup_gui after mainloop() returned: is_running = False
MainloopReturned ==
    /\ tk_pc = "returned"
    /\ tk_pc' = "stopped"
    /\ monitor_is_running' = FALSE
    /\ UNCHANGED <<store_vars, sim_vars, entity_var, entity_ids,
                   variable_labels, after_queue, orphans, hist_vars>>

\* one frame of run(): handle_events, with or without a QUIT event, then
\* update
LifeTick ==
    /\ frame_count < LifeTicks
    /\ is_running
    /\ \E quit \in BOOLEAN : handle_events(quit)
    /\ update

\* run() after its loop: monitor.stop(), pygame.quit()
RunExit ==
    /\ sim_pc = "idle"
    /\ ~is_running
    /\ sim_pc' = "exited"
    /\ stop
    /\ UNCHANGED <<store_vars, frame_count, selected_entity_id, global_metrics,
                   is_running, monitor_is_running, entity_var, entity_ids,
                   variable_labels, after_queue, orphans, hist_vars>>

LifeInit ==
    /\ MainStore
    /\ frame_count = 0
    /\ selected_entity_id = None
    /\ global_metrics = InitialMetrics
    /\ is_running = TRUE
    /\ sim_pc = "unstarted"
    /\ monitor_is_running = FALSE
    /\ tk_pc = "unstarted"
    /\ entity_var = "Game Metrics"
    /\ entity_ids = <<"Game Metrics">>
    /\ variable_labels = <<>>
    /\ after_queue = <<>>
    /\ orphans = <<>>
    /\ HistoryInit

LifeNext ==
    \/ StartMonitor \/ StartFails \/ MainCheck
    \/ LifeTick \/ Publish \/ RunCallback \/ UserSelect
    \/ CloseWindow \/ MainloopReturned \/ RunExit

LifeSpec == LifeInit /\ [][LifeNext]_vars

(***************************************************************************)
(* The simulation beside a prompt inspector: a frame lasts 1/FPS second    *)
(* and the Tk main loop runs a callback scheduled with after(0) at once,   *)
(* so every scheduled callback has run when the next frame begins.  These  *)
(* runs reach the second identity list (frame 120).                        *)
(***************************************************************************)
PromptTick ==
    /\ frame_count < PromptTicks
    /\ after_queue = <<>>
    /\ is_running
    /\ handle_events(FALSE)
    /\ update

PromptNext == PromptTick \/ Publish \/ RunCallback \/ UserSelect \/ Remove

PromptSpec == Init /\ [][PromptNext]_vars

(***************************************************************************)
(* The simulation with an entity whose x is no number: the store takes any *)
(* mapping (Dict[str, Any]), and a caller has written such an x.           *)
(***************************************************************************)
FaultTick ==
    frame_count < FaultTicks /\ is_running /\ handle_events(FALSE) /\ update

\* update_entity(entity_id, {"x": None}) between two frames
FaultUpdate ==
    /\ sim_pc = "idle"
    /\ \E id \in DOMAIN entities :
          update_entity(id, << <<"x", NotANumber>> >>)

FaultNext == FaultTick \/ RunCallback \/ FaultUpdate

FaultSpec == Init /\ [][FaultNext]_vars

(***************************************************************************)
(* The store on its own: any sequence of calls.                            *)
(***************************************************************************)
StoreInit ==
    /\ entities = <<>>
    /\ next_entity_id = 1
    /\ issued = <<>>
    /\ call = NoCall
    /\ RendererInit
    /\ MonitorInit
    /\ HistoryInit

StoreAdd == \E d \in InitialDatas : add_entity(d)
StoreUpdate == \E id \in IdInputs, u \in UpdateDatas : update_entity(id, u)
StoreRemove == \E id \in IdInputs : remove_entity(id)
StoreGet == \E id \in IdInputs : GetEntityData(id)

StoreNext == StoreAdd \/ StoreUpdate \/ StoreRemove \/ StoreGet

StoreSpec == StoreInit /\ [][StoreNext]_vars

(***************************************************************************)
(* Claims about the store.                                                 *)
(***************************************************************************)

\* C1: the identities add_entity returns are strictly increasing, so none is
\* returned twice, whatever updates and removals come in between
C1_IdentitiesIncrease ==
    \A i, j \in 1..Len(issued) : i < j => issued[i] < issued[j]

\* an identity was removed and a later add_entity returned another one
C1_Witness ==
    /\ Len(issued) >= 2
    /\ call.op = "add_entity"
    /\ \E i \in 1..(Len(issued) - 1) : issued[i] \notin DOMAIN entities

\* C8: update_entity on a present identity is a partial merge: the keys of
\* the updates get their new values, every other key of that entity keeps
\* its value, and the other entities and the identity counter are unchanged
C8_UpdateIsPartialMerge ==
    [][ (call' # call /\ call'.op = "update_entity"
                      /\ call'.id \in DOMAIN entities)
        => LET id == call'.id
               u == call'.arg
           IN /\ DOMAIN entities' = DOMAIN entities
              /\ DictKeys(entities'[id]) = DictKeys(entities[id]) \cup DictKeys(u)
              /\ \A k \in DictKeys(u) :
                    DictGet(entities'[id], k) = DictGet(u, k)
              /\ \A k \in DictKeys(entities[id]) \ DictKeys(u) :
                    DictGet(entities'[id], k) = DictGet(entities[id], k)
              /\ \A e \in DOMAIN entities \ {id} : entities'[e] = entities[e]
              /\ next_entity_id' = next_entity_id ]_vars

\* an entity created with the extra key "name" has had its x updated and
\* still has the name, beside another stored entity
C8_Witness ==
    /\ call.op = "update_entity"
    /\ call.id \in DOMAIN entities
    /\ call.arg = << <<"x", 3>> >>
    /\ DictHas(entities[call.id], "name")
    /\ DictGet(entities[call.id], "name") = "First Agent"
    /\ DictGet(entities[call.id], "x") = 3
    /\ Cardinality(DOMAIN entities) >= 2

\* C9: add_entity inserts exactly one new entity under the identity it
\* returns; its attributes are the template (x 0, y 0, status "Existing",
\* brain_active false) overridden by every key of initial_data, and every
\* entity stored before is unchanged; the call is possible for every
\* initial_data (up to the bound on identities)
C9_CreateMergesOverTemplate ==
  /\ [](next_entity_id <= MaxEntities
          => \A d \in InitialDatas : ENABLED add_entity(d))
  /\ [][ (call' # call /\ call'.op = "add_entity")
        => LET id == call'.ret
               init == call'.arg
               new == entities'[id]
               Default(k) == CASE k = "x" -> 0
                               [] k = "y" -> 0
                               [] k = "status" -> "Existing"
                               [] k = "brain_active" -> FALSE
                               [] k = "id" -> id
           IN /\ id \notin DOMAIN entities
              /\ DOMAIN entities' = DOMAIN entities \cup {id}
              /\ \A e \in DOMAIN entities : entities'[e] = entities[e]
              /\ DictKeys(new) =
                    {"id", "x", "y", "status", "brain_active"} \cup DictKeys(init)
              /\ \A k \in DictKeys(init) : DictGet(new, k) = DictGet(init, k)
              /\ \A k \in {"id", "x", "y", "status", "brain_active"} \ DictKeys(init) :
                    DictGet(new, k) = Default(k) ]_vars

\* an entity was created from data that overrides x and status and adds a
\* name, while an earlier entity is stored
C9_Witness ==
    /\ call.op = "add_entity"
    /\ DictHas(call.arg, "status")
    /\ call.ret \in DOMAIN entities
    /\ DictGet(entities[call.ret], "status") = "Spawned"
    /\ DictGet(entities[call.ret], "y") = 0
    /\ Cardinality(DOMAIN entities) >= 2

\* C10: update_entity on an identity that is not in the store changes
\* nothing: no entity is created, the stored entities and the identity
\* counter stay as they were; the call is possible for every identity
C10_UpdateAbsentIsNoOp ==
  /\ [](\A id \in IdInputs, u \in UpdateDatas : ENABLED update_entity(id, u))
  /\ [][ (call' # call /\ call'.op = "update_entity"
                      /\ call'.id \notin DOMAIN entities)
        => /\ entities' = entities
           /\ next_entity_id' = next_entity_id ]_vars

\* update_entity was called for an identity that is not stored (removed, or
\* never issued) while other entities are stored
C10_Witness ==
    /\ call.op = "update_entity"
    /\ call.id \notin DOMAIN entities
    /\ DOMAIN entities # {}

\* C11: get_entity_data on an identity that add_entity never returned
\* returns the absent outcome (an empty dict), is possible for every
\* identity (it never raises), and leaves the store and the identity
\* counter as they were: no entry is inserted
C11_GetAbsentReturnsEmpty ==
  /\ [](\A id \in IdInputs : ENABLED GetEntityData(id))
  /\ [][ (call' # call /\ call'.op = "get_entity_data"
                      /\ call'.id \notin Range(issued))
        => /\ call'.out = EmptyDict
           /\ entities' = entities
           /\ call'.id \notin DOMAIN entities'
           /\ next_entity_id' = next_entity_id ]_vars

\* get_entity_data was called for an identity never issued while two
\* entities are stored, and the store still holds exactly those two
C11_Witness ==
    /\ call.op = "get_entity_data"
    /\ call.id \notin Range(issued)
    /\ call.out = EmptyDict
    /\ Cardinality(DOMAIN entities) = 2
    /\ call.id \notin DOMAIN entities

\* C19: after any sequence of add_entity and update_entity calls with any
\* mappings, the "id" attribute of every stored entity is the identity it
\* is stored under
C19_IdAttributeIsIdentity ==
    \A k \in DOMAIN entities : DictGet(entities[k], "id") = k

(***************************************************************************)
(* Claims about publication and the inspector.                             *)
(***************************************************************************)

\* C2: when the selected identity has been removed from the store, the
\* next snapshot handed over is the aggregate metrics and the selection is
\* None afterwards
C2_RemovedSelectionFallsBack ==
    [][ (pub'.n # pub.n /\ selected_entity_id # None
                        /\ selected_entity_id \notin DOMAIN entities)
        => /\ pub'.value = global_metrics'
           /\ selected_entity_id' = None ]_vars

\* C3: a snapshot does not change after the handoff: every scheduled
\* snapshot still has the contents it was handed over with, and the labels
\* drawn are those contents
C3_SnapshotImmutable ==
    /\ \A i \in Pending(after_queue) :
          Deref(after_queue[i].data) = after_queue[i].at_publish
    /\ variable_labels = Labels(shown.at_publish)

\* C4: with the inspector running, every snapshot handed over is drawn in
\* the end, the last of several handed over before any was drawn included
C4_LastSnapshotShown ==
    \A n \in 1..(LiveTicks \div SnapshotCadence + 1) :
        (pub.n = n /\ shown.n < n) ~> (shown.n = n)

\* the inspector has drawn a snapshot that was handed over while an earlier
\* one was still waiting, and nothing newer is waiting
C4_Witness ==
    /\ shown.n >= 2
    /\ shown.behind >= 1
    /\ shown.n = pub.n
    /\ variable_labels = Labels(Deref(pub.data))

\* C5: at most one snapshot is waiting to be drawn at any time
C5_SingleSlot == Cardinality(Pending(after_queue)) <= 1

\* C6: the snapshot handed over at a publish step is the aggregate metrics,
\* keys in the order (frame count, rate, count, status) with this frame's
\* values, when the selection is None, and the stored dict of the selected
\* entity when the selection is an identity in the store
C6_SnapshotFollowsSelection ==
    [][ pub'.n # pub.n
        => /\ selected_entity_id' = None
                => /\ Len(pub'.value) = 4
                   /\ pub'.value[1] = <<"Frame Count", frame_count'>>
                   /\ pub'.value[2][1] = "Current FPS"
                   /\ pub'.value[3] =
                         <<"Total Entities", Cardinality(DOMAIN entities')>>
                   /\ pub'.value[4] = <<"System Status", "Running">>
           /\ (selected_entity_id' # None
                 /\ selected_entity_id' \in DOMAIN entities')
                => pub'.value = entities'[selected_entity_id'] ]_vars

\* C7: between frames of the scenario the frame counter is the number of
\* frames run, the metrics count the two stored entities, one snapshot has
\* been handed over per multiple of 15 and one identity list per multiple
\* of 60; after 120 frames that is 8 snapshots
C7_ScenarioCadence ==
    /\ frame_count = ticks
    /\ Cardinality(DOMAIN entities) = 2
    /\ ticks >= 1 =>
          /\ DictGet(global_metrics, "Total Entities") = 2
          /\ DictGet(global_metrics, "Frame Count") = ticks
    /\ pub.n = (frame_count \div SnapshotCadence)
                  - (IF sim_pc = "publish" THEN 1 ELSE 0)
    /\ pub.tick = SnapshotCadence * pub.n
    /\ lists = frame_count \div ListCadence
    /\ Cardinality(Pending(after_queue)) + shown.n = pub.n
    /\ (ticks = 120 /\ sim_pc = "idle") => pub.n >= 8

\* 120 frames have run: 8 snapshots and 2 identity lists were handed over
C7_Witness ==
    /\ ticks = 120
    /\ sim_pc = "idle"
    /\ pub.n = 8
    /\ lists = 2
    /\ shown.n >= 1

\* C15: no step of the inspector (a callback of its main loop drawing a
\* snapshot or applying an identity list, or a selection by the user)
\* changes the entity store, the identity counter, the aggregate metrics
\* or the frame counter; of the simulation's state it writes the selection
\* only
C15_InspectorWritesSelectionOnly ==
    [][ (\/ Len(after_queue') < Len(after_queue)
         \/ entity_var' # entity_var
         \/ entity_ids' # entity_ids
         \/ variable_labels' # variable_labels
         \/ shown' # shown)
        => /\ entities' = entities
           /\ next_entity_id' = next_entity_id
           /\ global_metrics' = global_metrics
           /\ frame_count' = frame_count
           /\ is_running' = is_running
           /\ sim_pc' = sim_pc ]_vars

\* the inspector has applied the identity list, drawn every snapshot handed
\* over and taken the user's selection of entity 2, and the metrics are
\* those of the last frame and both entities are stored
C15_Witness ==
    /\ Len(entity_ids) = 3
    /\ shown.n >= 1
    /\ after_queue = <<>>
    /\ entity_var = "2"
    /\ selected_entity_id = 2
    /\ DictGet(global_metrics, "Frame Count") = frame_count
    /\ DOMAIN entities = {1, 2}

\* C16: a frame in which the movement of one entity fails still advances
\* every other entity, leaves the failing entity as it was, recomputes the
\* metrics, hands over the snapshot that is due, and no exception leaves
\* update()
C16_FaultIsolated ==
    [][ (ticks' # ticks /\ FirstFault # None)
        => /\ \A k \in DOMAIN entities :
                 entities'[k] =
                    IF MovementRaises(entities[k])
                    THEN entities[k]
                    ELSE UpdatedEntities(k, MovementUpdates(entities[k]))[k]
           /\ DictGet(global_metrics', "Frame Count") = frame_count'
           /\ (SnapshotDue(frame_count') /\ selected_entity_id = None)
                 => pub'.n = pub.n + 1
           /\ sim_pc' # "raised" ]_vars

\* C17: the selection is None at the start, and selected_entity_id
\* changes only in a step of the user picking an option of the dropdown
\* (no frame, no publication, no store call and no callback in that step;
\* the new selection is the option picked), or in the list update that
\* reverts it to None when the selected entity is no longer in the store
C17_SelectionChangesByUserOnly ==
  /\ selected_entity_id = None
  /\ [][ selected_entity_id' # selected_entity_id
        => \/ /\ after_queue' = after_queue
              /\ ticks' = ticks
              /\ pub' = pub
              /\ entities' = entities
              /\ entity_var' \in Range(entity_ids)
              /\ entity_var' # entity_var
              /\ selected_entity_id' = on_entity_select(entity_var')
           \/ /\ Len(after_queue') < Len(after_queue)
              /\ NextCallback.fn = "_apply_entity_list_update"
              /\ selected_entity_id \notin DOMAIN entities
              /\ selected_entity_id' = None ]_vars

\* the user picked entity 1; entity 2 was removed, the second identity
\* list was applied and every snapshot drawn, and the selection is still 1
C17_Witness ==
    /\ selected_entity_id = 1
    /\ entity_var = "1"
    /\ entity_ids = <<"Game Metrics", "1">>
    /\ frame_count = 121
    /\ after_queue = <<>>
    /\ shown.n = pub.n

\* C18: with no entity ever removed, every snapshot handed over is the
\* aggregate metrics or the dict of a stored entity, whatever the
\* inspector writes to the selection during the publish step; it is never
\* an empty mapping
C18_SnapshotNeverTorn ==
    (pub.n > 0 /\ Range(issued) \subseteq DOMAIN entities)
       => /\ pub.value # EmptyDict
          /\ \/ pub.data = MetricsRef
             \/ pub.data \in {EntityRef(k) : k \in DOMAIN entities}

\* C20: the dropdown's value is always one of its options; a list update
\* whose options equal the current ones changes nothing; one whose list
\* lacks the identity the dropdown shows sets the dropdown to "Game
\* Metrics" and the selection to None in that same step, and one whose list
\* has it (or applied while "Game Metrics" is shown) leaves both alone
C20_DropdownValueIsAnOption ==
  /\ [](entity_var \in Range(entity_ids))
  /\ [][ (Len(after_queue') < Len(after_queue)
            /\ NextCallback.fn = "_apply_entity_list_update")
        => LET ids == Range(NextCallback.ids)
               options == {"Game Metrics"} \cup {ToString(i) : i \in ids}
           IN /\ Range(entity_ids') = options
              /\ options = Range(entity_ids)
                    => UNCHANGED <<entity_ids, entity_var, selected_entity_id,
                                   variable_labels>>
              /\ (entity_var # "Game Metrics"
                    /\ on_entity_select(entity_var) \notin ids)
                    => /\ entity_var' = "Game Metrics"
                       /\ selected_entity_id' = None
              /\ (entity_var = "Game Metrics"
                    \/ on_entity_select(entity_var) \in ids)
                    => UNCHANGED <<entity_var, selected_entity_id>> ]_vars

\* frame 120 read a selection, entity 2 (whose dict was the last snapshot)
\* is gone from the store, and the second identity list has been applied:
\* the options are "Game Metrics" and "1", the dropdown shows "Game
\* Metrics" and the selection is None
C20_Witness ==
    /\ frame_count = 120
    /\ sim_pc = "publish"
    /\ pub.data = EntityRef(2)
    /\ 2 \notin DOMAIN entities
    /\ entity_ids = <<"Game Metrics", "1">>
    /\ entity_var = "Game Metrics"
    /\ selected_entity_id = None

(***************************************************************************)
(* Claims about start-up and shutdown.                                     *)
(***************************************************************************)

\* C12: stopping the inspector at any point, a handoff in progress
\* included, never stops or blocks the simulation loop: no exception
\* leaves run() and the loop never waits on the stopped inspector
C12_StopLeavesSimulationRunning == sim_pc \notin HandoffFailures

\* C13: the end of the simulation loop does not stop the inspector: the
\* step in which run() returns leaves the monitor's main loop as it was
C13_ExitLeavesInspectorRunning ==
    [][ (sim_pc # "exited" /\ sim_pc' = "exited")
        => /\ tk_pc' = tk_pc
           /\ monitor_is_running' = monitor_is_running ]_vars

\* C14: the simulation starts whether or not the inspector has started:
\* main never returns without running the renderer, and while the
\* inspector is not running a frame still advances the entities and the
\* metrics and hands nothing over
C14_InspectionOptional ==
  /\ [](sim_pc # "refused")
  /\ [][ (ticks' # ticks /\ ~monitor_is_running)
        => /\ entities' = MovedEntities
           /\ DictGet(global_metrics', "Frame Count") = frame_count'
           /\ after_queue' = after_queue
           /\ sim_pc' \in {"idle", "publish"} ]_vars

=============================================================================
